---- MODULE Spec2Model ----
(***************************************************************************)
(* geopy.geocoders.google: the Google geocoder client.  A public call      *)
(* (geocode or reverse) builds a request, geocode_url fetches the page and *)
(* dispatches it to the parser named by output_format, and the parser      *)
(* returns one result, a lazy sequence of results, or raises.              *)
(***************************************************************************)
EXTENDS Integers, Sequences, FiniteSets, TLC

\* ------------------------------------------------------------------ bounds

\* Longest Placemark / marker list a response carries.
MaxPlaces == 2
\* The counters of HTTP requests and of nested geocode calls are observers
\* of the run, not program state: they stop counting at these values.
MaxNested == 2

\* ------------------------------------------------------------------ values

\* Every text (label, query, coordinates text) is a sequence of characters.
\* Python's None, where a text may be absent, is unlike every text.
None == <<"<None>">>

\* str(None), what '%s' % None interpolates.
StrNone == <<"N", "o", "n", "e">>

NoResult == [kind |-> "none"]
NoError == [type |-> "none"]

ValueError(msg, found) == [type |-> "ValueError", msg |-> msg, found |-> found]
SimpleError(type) == [type |-> type]

\* class GeoStatusError: the exception keeps the status it was built with.
GeoStatusError(status) == [type |-> "GeoStatusError", status |-> status]

Min(a, b) == IF a < b THEN a ELSE b

\* dict.get(key, default)
Get(d, k, dflt) == IF k \in DOMAIN d THEN d[k] ELSE dflt

EmptyDict == <<>>

\* seq[:2]
FirstTwo(s) == SubSeq(s, 1, Min(2, Len(s)))

\* ------------------------------------------------------------------ text

Digits == <<"0", "1", "2", "3", "4", "5", "6", "7", "8", "9">>

DigitValue(c) == CHOOSE d \in 0..9 : Digits[d + 1] = c

IsDigit(c) == \E d \in 0..9 : Digits[d + 1] = c

\* str.split(','): the text cut at every comma, empty pieces kept.
RECURSIVE SplitFrom(_, _, _)
SplitFrom(s, i, cur) ==
    IF i > Len(s) THEN <<cur>>
    ELSE IF s[i] = "," THEN <<cur>> \o SplitFrom(s, i + 1, <<>>)
    ELSE SplitFrom(s, i + 1, Append(cur, s[i]))

Split(s) == SplitFrom(s, 1, <<>>)

RECURSIVE DigitsValue(_, _)
DigitsValue(s, acc) ==
    IF s = <<>> THEN acc ELSE DigitsValue(Tail(s), 10 * acc + DigitValue(Head(s)))

Unsigned(s) == IF s # <<>> /\ Head(s) = "-" THEN Tail(s) ELSE s

\* float(text) accepts an optional sign and at least one digit.
IsFloat(s) ==
    /\ Unsigned(s) # <<>>
    /\ \A i \in 1..Len(Unsigned(s)) : IsDigit(Unsigned(s)[i])

Float(s) ==
    IF Head(s) = "-" THEN 0 - DigitsValue(Tail(s), 0) ELSE DigitsValue(s, 0)

\* ------------------------------------------------------------------ outcomes

\* What running a parser (or one parse_place) comes to: it raises, it returns
\* a value, it returns a generator over the entries, or parse_place is
\* suspended in self.geocode(location) until the nested call returns.
\* Each outcome also lists the parse_* methods entered on the way to it.
Raise(e) == [kind |-> "raise", err |-> e, ran |-> {}]
Return(v) == [kind |-> "return", value |-> v, ran |-> {}]
Generator(parser, entries) ==
    [kind |-> "generator", parser |-> parser, entries |-> entries, ran |-> {}]
CallGeocode(location) == [kind |-> "geocode", location |-> location, ran |-> {}]

\* The outcome of a body run inside the method of that name.
Enters(method, out) == [out EXCEPT !.ran = @ \cup {method}]

\* places[0] on an empty list
IndexError == [type |-> "IndexError"]

\* ------------------------------------------------------------------ XML / KML

NoNode == [absent |-> TRUE]

\* util.get_first_text(node, tags): the text of the first tag of the list that
\* has a non-empty text under the node, the empty text when there is none (or
\* no node).
RECURSIVE get_first_text(_, _)
get_first_text(node, tags) ==
    IF tags = <<>> \/ "absent" \in DOMAIN node THEN <<>>
    ELSE IF Get(node, Head(tags), <<>>) # <<>> THEN node[Head(tags)]
    ELSE get_first_text(node, Tail(tags))

\* parse_place keeping the wire order: (first, second) taken as (latitude,
\* longitude).
xml_parse_place_unflipped(place) ==
    LET text == get_first_text(place, <<"address", "name">>)
        location == IF text # <<>> THEN text ELSE None
        points == place.Point
        point == IF points # <<>> THEN points[1] ELSE NoNode
        coords == get_first_text(point, <<"coordinates">>)
        parts == FirstTwo(Split(coords))
    IN  IF coords # <<>>
        THEN IF \E i \in 1..Len(parts) : ~IsFloat(parts[i])
             THEN Raise(ValueError("float", 0))
             ELSE IF Len(parts) # 2
             THEN Raise(ValueError("unpack", Len(parts)))
             ELSE Return([label |-> location,
                          coord |-> <<Float(parts[1]), Float(parts[2])>>])
        ELSE CallGeocode(location)

\* parse_xml's parse_place(place)
xml_parse_place(place) ==
    LET text == get_first_text(place, <<"address", "name">>)
        location == IF text # <<>> THEN text ELSE None
        points == place.Point
        point == IF points # <<>> THEN points[1] ELSE NoNode
        coords == get_first_text(point, <<"coordinates">>)
        parts == FirstTwo(Split(coords))
    IN  IF coords # <<>>
        THEN IF \E i \in 1..Len(parts) : ~IsFloat(parts[i])
             THEN Raise(ValueError("float", 0))
             ELSE IF Len(parts) # 2
             THEN Raise(ValueError("unpack", Len(parts)))
             ELSE Return([label |-> location,
                          coord |-> <<Float(parts[2]), Float(parts[1])>>])
        ELSE CallGeocode(location)

\* parse_xml without its except clause: a malformed document raises ExpatError.
parse_xml_no_except(page, exactly_one, reverse) ==
    LET places == page.Placemark
    IN  Enters("parse_xml",
        IF ~page.wellformed
        THEN Raise(SimpleError("ExpatError"))
        ELSE IF (exactly_one /\ Len(places) # 1) /\ ~reverse
        THEN Raise(ValueError("placemark", Len(places)))
        ELSE IF exactly_one
        THEN IF places = <<>> THEN Raise(IndexError) ELSE xml_parse_place(places[1])
        ELSE Generator("xml", places))

\* parse_xml(page, exactly_one, reverse); a page is the decoded document.
parse_xml(page, exactly_one, reverse) ==
    LET places == IF page.wellformed THEN page.Placemark ELSE <<>>
    IN  Enters("parse_xml",
        IF (exactly_one /\ Len(places) # 1) /\ ~reverse
        THEN Raise(ValueError("placemark", Len(places)))
        ELSE IF exactly_one
        THEN IF places = <<>> THEN Raise(IndexError) ELSE xml_parse_place(places[1])
        ELSE Generator("xml", places))

parse_kml(page, exactly_one, reverse) ==
    Enters("parse_kml", parse_xml(page, exactly_one, reverse))

\* parse_csv as a silent stub that returns nothing.
parse_csv_noop(page, exactly_one, reverse) ==
    Enters("parse_csv", Return([label |-> None, coord |-> <<>>]))

parse_csv(page, exactly_one, reverse) ==
    Enters("parse_csv", Raise(SimpleError("NotImplementedError")))

\* ------------------------------------------------------------------ JSON

\* parse_json's parse_place(place)
json_parse_place(place) ==
    LET location == Get(place, "address", None)
        details == Get(place, "AddressDetails", EmptyDict)
        area == Get(Get(details, "Country", EmptyDict), "AdministrativeArea", EmptyDict)
        locality == Get(Get(area, "Locality", EmptyDict), "LocalityName", None)
        administrative == Get(area, "AdministrativeAreaName", None)
        accuracy == Get(details, "Accuracy", None)
    IN  IF "Point" \notin DOMAIN place \/ "coordinates" \notin DOMAIN place.Point
        THEN Raise(SimpleError("KeyError"))
        ELSE LET pair == FirstTwo(place.Point.coordinates)
             IN  IF Len(pair) # 2
                 THEN Raise(ValueError("unpack", Len(pair)))
                 ELSE Return([label |-> location,
                              coord |-> <<pair[2], pair[1]>>,
                              locality |-> locality,
                              administrative |-> administrative,
                              accuracy |-> accuracy])

\* json.get('Status', {}).get('code')
StatusCode(json) == Get(Get(json, "Status", EmptyDict), "code", None)

\* status != 200, None (no Status, or no code in it) being unequal to 200
NotSuccess(json) ==
    IF "code" \in DOMAIN Get(json, "Status", EmptyDict) THEN json.Status.code # 200 ELSE TRUE

\* parse_json counting the placemarks before it reads the status.
parse_json_count_first(page, exactly_one, reverse) ==
    Enters("parse_json",
    IF ~page.wellformed
    THEN Raise(ValueError("json", 0))
    ELSE LET json == page.json
             status == StatusCode(json)
             places == Get(json, "Placemark", <<>>)
         IN  IF (exactly_one /\ Len(places) # 1) /\ ~reverse
             THEN Raise(ValueError("placemark", Len(places)))
             ELSE IF NotSuccess(json)
             THEN Raise(GeoStatusError(status))
             ELSE IF exactly_one
             THEN IF places = <<>> THEN Raise(IndexError) ELSE json_parse_place(places[1])
             ELSE Generator("json", places))

\* parse_json(page, exactly_one, reverse)
parse_json(page, exactly_one, reverse) ==
    Enters("parse_json",
    IF ~page.wellformed
    THEN Raise(ValueError("json", 0))
    ELSE LET json == page.json
             status == StatusCode(json)
             places == Get(json, "Placemark", <<>>)
         IN  IF NotSuccess(json)
             THEN Raise(GeoStatusError(status))
             ELSE IF (exactly_one /\ Len(places) # 1) /\ ~reverse
             THEN Raise(ValueError("placemark", Len(places)))
             ELSE IF exactly_one
             THEN IF places = <<>> THEN Raise(IndexError) ELSE json_parse_place(places[1])
             ELSE Generator("json", places))

\* ------------------------------------------------------------------ JavaScript

\* import re: the module's imports bind logging, urlencode, urlopen,
\* simplejson, xml, ExpatError, Geocoder, Point, Location and util; the name
\* re is bound nowhere.
ReImported == FALSE

\* re.match(ADDRESS, location).group('address'): the text before the first
\* " (" that an "@" follows, the whole text when there is none.
CutAt(s, i) ==
    /\ i + 1 <= Len(s)
    /\ s[i] = " "
    /\ s[i + 1] = "("
    /\ \E j \in (i + 2)..Len(s) : s[j] = "@"

Address(s) ==
    IF \E i \in 1..Len(s) : CutAt(s, i)
    THEN LET i == CHOOSE k \in 1..Len(s) :
                      CutAt(s, k) /\ \A m \in 1..(k - 1) : ~CutAt(s, m)
         IN  SubSeq(s, 1, i - 1)
    ELSE s

\* parse_js's parse_marker(marker); a marker is the tuple of the three groups
\* MARKER matched, so its latitude and longitude are numerals.
parse_marker(marker) ==
    Return([label |-> Address(marker.location),
            coord |-> <<Float(marker.latitude), Float(marker.longitude)>>])

\* parse_js(page, exactly_one, reverse); a page is the markers text MARKERS
\* finds in it (match) and the records MARKER finds in that text.
parse_js(page, exactly_one, reverse) ==
    Enters("parse_js",
    IF ~ReImported
    THEN Raise(SimpleError("NameError"))
    ELSE LET markers == IF page.match THEN page.markers ELSE <<>>
         IN  IF exactly_one
             THEN IF Len(markers) # 1 /\ ~reverse
                  THEN Raise(ValueError("marker", Len(markers)))
                  ELSE IF markers = <<>> THEN Raise(IndexError)
                  ELSE parse_marker(markers[1])
             ELSE Generator("js", markers))

\* ------------------------------------------------------------------ responses

\* All sequences over S of length at most n.
SeqsUpTo(S, n) == UNION {[1..k -> S] : k \in 0..n}

Coordinates(text) == [coordinates |-> text]

\* Placemark elements: address and name texts (empty when the element lacks
\* them) and the Point elements under the placemark.
XmlPlacemarks ==
    { [address |-> <<"A">>, name |-> <<>>,
       Point |-> <<Coordinates(<<"1", ",", "2">>)>>],
      [address |-> <<>>, name |-> <<"B">>,
       Point |-> <<Coordinates(<<"-", "3", ",", "4", ",", "5">>),
                   Coordinates(<<"6", ",", "7">>)>>],
      [address |-> <<"C">>, name |-> <<"N">>, Point |-> <<>>],
      [address |-> <<>>, name |-> <<>>, Point |-> <<Coordinates(<<>>)>>],
      [address |-> <<"D">>, name |-> <<>>, Point |-> <<Coordinates(<<"8">>)>>],
      [address |-> <<"E">>, name |-> <<>>,
       Point |-> <<Coordinates(<<"x", ",", "1">>)>>] }

XmlPages ==
    {[wellformed |-> FALSE, Placemark |-> <<>>]}
    \cup {[wellformed |-> TRUE, Placemark |-> ps] : ps \in SeqsUpTo(XmlPlacemarks, MaxPlaces)}

JsonPlacemarks ==
    { [address |-> <<"A">>,
       Point |-> [coordinates |-> <<1, 2, 0>>],
       AddressDetails |->
           [Accuracy |-> 8,
            Country |-> [AdministrativeArea |->
                [AdministrativeAreaName |-> <<"C", "A">>,
                 Locality |-> [LocalityName |-> <<"M", "V">>]]]]],
      [Point |-> [coordinates |-> <<0 - 3, 4>>]],
      [address |-> <<"C">>],
      [address |-> <<"D">>, Point |-> [coordinates |-> <<5>>]] }

JsonStatuses ==
    {[Status |-> [code |-> 200]], [Status |-> [code |-> 602]], [Status |-> EmptyDict],
     EmptyDict}

\* d with key k set to v
With(d, k, v) == [x \in DOMAIN d \cup {k} |-> IF x = k THEN v ELSE d[x]]

JsonPages ==
    {[wellformed |-> FALSE, json |-> EmptyDict]}
    \cup {[wellformed |-> TRUE, json |-> st] : st \in JsonStatuses}
    \cup {[wellformed |-> TRUE, json |-> With(st, "Placemark", ps)] :
             st \in JsonStatuses, ps \in SeqsUpTo(JsonPlacemarks, MaxPlaces)}

JsMarkers ==
    { [latitude |-> <<"1">>, longitude |-> <<"2">>, location |-> <<"A">>],
      [latitude |-> <<"-", "3">>, longitude |-> <<"4">>,
       location |-> <<"B", " ", "(", "v", "@", "x", ")">>] }

JsPages ==
    {[match |-> FALSE, markers |-> <<>>]}
    \cup {[match |-> TRUE, markers |-> ms] : ms \in SeqsUpTo(JsMarkers, MaxPlaces)}

\* A body no parser of the module reads.
OtherPages == {[body |-> "text"]}

\* urlopen raised instead of returning a page.
URLError == [transport |-> "URLError"]

\* What the service may answer to a request for the given output format.
Pages(output_format) ==
    CASE output_format \in {"xml", "kml"} -> XmlPages
      [] output_format = "json" -> JsonPages
      [] output_format = "js" -> JsPages
      [] OTHER -> OtherPages

\* ------------------------------------------------------------------ state

VARIABLES
    output_format,  \* self.output_format
    format_string,  \* self.format_string: the texts around its '%s'
    pc,             \* "idle", "fetch" (in geocode_url, before urlopen),
                    \* "iter" (a generator was returned), "done"
    call,           \* the public call in progress and its arguments
    params,         \* the query parameters of the request about to be sent
    inner,          \* the request about to be sent is a nested geocode's
    location,       \* the label parse_place holds while its nested call runs
    gen,            \* the generator returned: its parse_place, entries, position
    yielded,        \* the results the generator has produced
    result,         \* the value the public call returned
    err,            \* the exception that reached the caller
    last_page,      \* page = urlopen(url): the page the latest request fetched
    page0,          \* the page fetched by the public call's own request
    ran,            \* the parse_* methods entered during the public call
    requests,       \* urlopen calls during the public call (stops at MaxNested + 1)
    nested          \* nested geocode calls during the public call (stops at MaxNested)

vars == <<output_format, format_string, pc, call, params, inner, location, gen,
          yielded, result, err, last_page, page0, ran, requests, nested>>

config == <<output_format, format_string>>

Formats == {"xml", "kml", "json", "js", "csv", "KML", "gpx"}

\* The default '%s' and a template with a suffix, '%s, UK'.
FormatStrings == {[prefix |-> <<>>, suffix |-> <<>>],
                  [prefix |-> <<>>, suffix |-> <<",", " ", "U", "K">>]}

NoCall == [op |-> "none"]
NoGen == [parser |-> "none", entries |-> <<>>, idx |-> 1]
NoPage == [nopage |-> TRUE]
NoParams == <<>>

\* Google.__init__
Init ==
    /\ output_format \in Formats
    /\ format_string \in FormatStrings
    /\ pc = "idle"
    /\ call = NoCall
    /\ params = NoParams
    /\ inner = FALSE
    /\ location = None
    /\ gen = NoGen
    /\ yielded = <<>>
    /\ result = NoResult
    /\ err = NoError
    /\ last_page = NoPage
    /\ page0 = NoPage
    /\ ran = {}
    /\ requests = 0
    /\ nested = 0

\* str(x) of what is interpolated: a text, or None
Str(x) == IF x = None THEN StrNone ELSE x

\* self.format_string % x
Format(x) == format_string.prefix \o Str(x) \o format_string.suffix

\* str.lower() of an output format name
Lower(name) == IF name = "KML" THEN "kml" ELSE name

\* The parameters geocode builds (q, output, sensor).
GeocodeParams(string, sensor) ==
    [q |-> Format(string), output |-> Lower(output_format),
     sensor |-> IF sensor THEN "true" ELSE "false"]

\* The parameters reverse builds (q, output).
ReverseParams(lat, lng) ==
    [q |-> (Format(lat) \o <<",">>) \o Format(lng), output |-> Lower(output_format)]

\* The arguments of the public calls; a coordinate's components are given as
\* the texts '%s' interpolates.
Queries == {<<"Q">>}
Coords == {<<(<<"5">>), (<<"6">>)>>}

\* A public call starts with nothing left of the previous one.
Enter(c, p) ==
    /\ pc \in {"idle", "done"}
    /\ call' = c
    /\ params' = p
    /\ pc' = "fetch"
    /\ inner' = FALSE
    /\ location' = None
    /\ gen' = NoGen
    /\ yielded' = <<>>
    /\ result' = NoResult
    /\ err' = NoError
    /\ last_page' = NoPage
    /\ page0' = NoPage
    /\ ran' = {}
    /\ requests' = 0
    /\ nested' = 0
    /\ UNCHANGED config

\* getattr(self, 'parse_' + self.output_format)(page, exactly_one, reverse)
Dispatch(page, exactly_one, reverse) ==
    CASE output_format = "xml" -> parse_xml(page, exactly_one, reverse)
      [] output_format = "kml" -> parse_kml(page, exactly_one, reverse)
      [] output_format = "json" -> parse_json(page, exactly_one, reverse)
      [] output_format = "js" -> parse_js(page, exactly_one, reverse)
      [] output_format = "csv" -> parse_csv(page, exactly_one, reverse)
      [] OTHER -> Raise(SimpleError("AttributeError"))

\* The parse_place (or parse_marker) a generator applies to its entries.
ParseEntry(parser, entry) ==
    CASE parser = "xml" -> xml_parse_place(entry)
      [] parser = "json" -> json_parse_place(entry)
      [] parser = "js" -> parse_marker(entry)

Value(v) == [kind |-> "value", value |-> v]

\* Complete handing up the nested call's whole result, label included.
Complete_nested_label(out) ==
    CASE out.kind = "raise" ->
            /\ pc' = "done"
            /\ err' = out.err
            /\ inner' = FALSE
            /\ UNCHANGED <<params, location, gen, yielded, result, nested>>
      [] out.kind = "geocode" ->
            /\ pc' = "fetch"
            /\ params' = GeocodeParams(out.location, FALSE)
            /\ inner' = TRUE
            /\ location' = IF inner THEN location ELSE out.location
            /\ nested' = Min(nested + 1, MaxNested)
            /\ UNCHANGED <<gen, yielded, result, err>>
      [] out.kind = "generator" ->
            /\ pc' = "iter"
            /\ gen' = [parser |-> out.parser, entries |-> out.entries, idx |-> 1]
            /\ result' = [kind |-> "generator"]
            /\ UNCHANGED <<params, inner, location, yielded, err, nested>>
      [] out.kind = "return" ->
            /\ inner' = FALSE
            /\ IF call.exactly_one
               THEN /\ pc' = "done"
                    /\ result' = Value(out.value)
                    /\ UNCHANGED <<gen, yielded>>
               ELSE /\ pc' = "iter"
                    /\ yielded' = Append(yielded, out.value)
                    /\ gen' = [gen EXCEPT !.idx = @ + 1]
                    /\ UNCHANGED result
            /\ UNCHANGED <<params, location, err, nested>>

\* How the run goes on from the outcome of a parser or of one parse_place.
\*  raise:     the exception passes through every frame to the caller.
\*  geocode:   parse_place calls self.geocode(location), which builds its
\*             request and enters geocode_url; the outermost parse_place
\*             keeps its own label until the nested call returns.
\*  generator: the public call returns the generator.
\*  return:    every nested geocode returns (its label, the coordinate) to
\*             the parse_place that called it, which drops that label and
\*             returns (its own label, the coordinate); the outermost
\*             parse_place's value is the call's result or the generator's
\*             next item.
Complete(out) ==
    CASE out.kind = "raise" ->
            /\ pc' = "done"
            /\ err' = out.err
            /\ inner' = FALSE
            /\ UNCHANGED <<params, location, gen, yielded, result, nested>>
      [] out.kind = "geocode" ->
            /\ pc' = "fetch"
            /\ params' = GeocodeParams(out.location, FALSE)
            /\ inner' = TRUE
            /\ location' = IF inner THEN location ELSE out.location
            /\ nested' = Min(nested + 1, MaxNested)
            /\ UNCHANGED <<gen, yielded, result, err>>
      [] out.kind = "generator" ->
            /\ pc' = "iter"
            /\ gen' = [parser |-> out.parser, entries |-> out.entries, idx |-> 1]
            /\ result' = [kind |-> "generator"]
            /\ UNCHANGED <<params, inner, location, yielded, err, nested>>
      [] out.kind = "return" ->
            LET v == IF inner
                     THEN [label |-> location, coord |-> out.value.coord]
                     ELSE out.value
            IN  /\ inner' = FALSE
                /\ IF call.exactly_one
                   THEN /\ pc' = "done"
                        /\ result' = Value(v)
                        /\ UNCHANGED <<gen, yielded>>
                   ELSE /\ pc' = "iter"
                        /\ yielded' = Append(yielded, v)
                        /\ gen' = [gen EXCEPT !.idx = @ + 1]
                        /\ UNCHANGED result
                /\ UNCHANGED <<params, location, err, nested>>

\* Google.geocode(string, exactly_one, sensor=...), up to its geocode_url call
geocode ==
    \E string \in Queries, exactly_one \in BOOLEAN :
        Enter([op |-> "geocode", exactly_one |-> exactly_one, reverse |-> FALSE],
              GeocodeParams(string, FALSE))

\* Google.reverse(coord, exactly_one), up to its geocode_url call
reverse ==
    \E coord \in Coords, exactly_one \in BOOLEAN :
        Enter([op |-> "reverse", exactly_one |-> exactly_one, reverse |-> TRUE],
              ReverseParams(coord[1], coord[2]))

\* geocode_url opening the url again after a transport failure.
geocode_url_retry ==
    /\ pc = "fetch"
    /\ requests' = Min(requests + 1, MaxNested + 1)
    /\ \E resp \in Pages(output_format) \cup {URLError} :
         IF resp = URLError /\ last_page # URLError
         THEN /\ last_page' = resp
              /\ UNCHANGED <<pc, params, inner, location, gen, yielded, result, err,
                             page0, ran, nested>>
         ELSE LET exactly_one == IF inner THEN TRUE ELSE call.exactly_one
                  rev == IF inner THEN FALSE ELSE call.reverse
                  out == IF resp = URLError
                         THEN Raise(SimpleError("URLError"))
                         ELSE Dispatch(resp, exactly_one, rev)
              IN  /\ last_page' = resp
                  /\ page0' = IF inner THEN page0 ELSE resp
                  /\ ran' = ran \cup out.ran
                  /\ Complete(out)
    /\ UNCHANGED <<config, call>>

\* Google.geocode_url(url, exactly_one, reverse): one urlopen, then the parser
\* the output format names.  A nested call is geocode(location): exactly_one
\* and reverse take their defaults.
geocode_url ==
    /\ pc = "fetch"
    /\ requests' = Min(requests + 1, MaxNested + 1)
    /\ \E resp \in Pages(output_format) \cup {URLError} :
         LET exactly_one == IF inner THEN TRUE ELSE call.exactly_one
             rev == IF inner THEN FALSE ELSE call.reverse
             out == IF resp = URLError
                    THEN Raise(SimpleError("URLError"))
                    ELSE Dispatch(resp, exactly_one, rev)
         IN  /\ last_page' = resp
             /\ page0' = IF inner THEN page0 ELSE resp
             /\ ran' = ran \cup out.ran
             /\ Complete(out)
    /\ UNCHANGED <<config, call>>

\* The caller takes the next item of the generator: parse_place of the next
\* entry, or the end of the sequence.
next_item ==
    /\ pc = "iter"
    /\ IF gen.idx > Len(gen.entries)
       THEN /\ pc' = "done"
            /\ UNCHANGED <<params, inner, location, gen, yielded, result, err, nested>>
       ELSE Complete(ParseEntry(gen.parser, gen.entries[gen.idx]))
    /\ UNCHANGED <<config, call, last_page, page0, ran, requests>>

Next == geocode \/ reverse \/ geocode_url \/ next_item

Spec == Init /\ [][Next]_vars

\* A call in progress goes on: the module is synchronous, and a generator's
\* caller is taken to keep asking until the sequence ends.
FairSpec == Spec /\ WF_vars(geocode_url) /\ WF_vars(next_item)

\* ------------------------------------------------------------------ claims

\* The public call's own request was answered with a page.
Received == page0 # NoPage /\ page0 # URLError

IsXml == output_format \in {"xml", "kml"}
IsJson == output_format = "json"

Forward == call.op = "geocode"
Reverse == call.op = "reverse"

\* Placemark elements of the XML page; a malformed document has none.
XmlFound == IF page0.wellformed THEN Len(page0.Placemark) ELSE 0

\* The JSON page parsed and its Status.code is 200.
Json200 ==
    /\ page0.wellformed
    /\ "Status" \in DOMAIN page0.json
    /\ "code" \in DOMAIN page0.json.Status
    /\ page0.json.Status.code = 200

\* Entries of the JSON page's Placemark list.
JsonFound == IF "Placemark" \in DOMAIN page0.json THEN Len(page0.json.Placemark) ELSE 0

\* C1: in a forward call with exactly_one, the XML/KML parser and the JSON
\* parser (once the status is 200) raise the cardinality error, naming the
\* number found, and return nothing, whenever the page holds zero or several
\* placemarks; a malformed XML document counts as zero placemarks.
C1_Cardinality ==
    (pc = "done" /\ Forward /\ call.exactly_one /\ Received) =>
        /\ (IsXml /\ XmlFound # 1) =>
               err = ValueError("placemark", XmlFound)
               /\ result = NoResult /\ yielded = <<>>
        /\ (IsJson /\ Json200 /\ JsonFound # 1) =>
               err = ValueError("placemark", JsonFound)
               /\ result = NoResult /\ yielded = <<>>

C1_Witness ==
    /\ pc = "done" /\ Forward /\ call.exactly_one /\ Received
    /\ IsXml /\ ~page0.wellformed
    /\ err = ValueError("placemark", 0)

\* C2: in a reverse call with exactly_one whose page holds no placemark, the
\* XML/KML and JSON parsers raise a distinct 'no results' error.
C2_NoResultError ==
    (/\ pc = "done" /\ Reverse /\ call.exactly_one /\ Received
     /\ \/ IsXml /\ XmlFound = 0
        \/ IsJson /\ Json200 /\ JsonFound = 0)
    => err.type = "NoResultError"

\* C3: whenever the JSON page's Status.code is not 200 (or is missing), the
\* call raises the status error carrying that code (None when missing),
\* whatever exactly_one, reverse and the Placemark list are, and produces no
\* result and no item.
C3_StatusFirst ==
    (pc \in {"done", "iter"} /\ IsJson /\ Received /\ page0.wellformed /\ ~Json200) =>
        /\ pc = "done"
        /\ err.type = "GeoStatusError"
        /\ IF "Status" \in DOMAIN page0.json /\ "code" \in DOMAIN page0.json.Status
           THEN err.status = page0.json.Status.code
           ELSE err.status = None
        /\ result = NoResult
        /\ yielded = <<>>

C3_Witness ==
    /\ pc = "done" /\ IsJson /\ Received /\ page0.wellformed
    /\ Reverse /\ ~call.exactly_one
    /\ "Status" \in DOMAIN page0.json /\ "code" \in DOMAIN page0.json.Status
    /\ "Placemark" \in DOMAIN page0.json /\ Len(page0.json.Placemark) = 2
    /\ err = GeoStatusError(602)

\* C4: a public call always comes to an end (a result, a generator or an
\* error), whatever the service answers.
C4_Terminates == (pc = "fetch") ~> (pc # "fetch")

\* C5 as stated: a finished public call has issued exactly one request.
C5_ExactlyOneRequest == (pc = "done") => requests = 1

\* C5 as amended: a public call issues one request of its own and one more
\* for every nested geocode call of the XML/KML fallback, during the call or
\* while its generator is consumed; nothing else issues a request, so with
\* any other format, and after any failure, the count stays at one.
C5_OneRequestPerGeocode ==
    /\ (pc \in {"iter", "done"}) => requests = 1 + nested
    /\ (nested > 0) => IsXml
    /\ (pc = "done" /\ err.type = "URLError") => last_page = URLError

C5_Witness ==
    /\ pc = "done"
    /\ requests = 2 /\ nested = 1
    /\ result.kind = "value"

\* The parse_* methods a call with this output format enters.
ExpectedRan ==
    CASE output_format = "xml" -> {"parse_xml"}
      [] output_format = "kml" -> {"parse_kml", "parse_xml"}
      [] output_format = "json" -> {"parse_json"}
      [] output_format = "js" -> {"parse_js"}
      [] output_format = "csv" -> {"parse_csv"}
      [] OTHER -> {}

\* C6: once urlopen has returned a page, it goes to the parser the output
\* format names and to no other;
\* with csv the call raises NotImplementedError, with a name outside the five
\* it raises AttributeError, and in both cases nothing is returned.
C6_Dispatch ==
    /\ ran \subseteq ExpectedRan
    /\ Received => ran = ExpectedRan
    /\ (Received /\ output_format = "csv") =>
           /\ pc = "done"
           /\ err = SimpleError("NotImplementedError")
           /\ result = NoResult /\ yielded = <<>>
    /\ (Received /\ output_format \notin {"xml", "kml", "json", "js", "csv"}) =>
           /\ pc = "done"
           /\ err = SimpleError("AttributeError")
           /\ result = NoResult /\ yielded = <<>>

C6_Witness ==
    /\ pc = "done" /\ Received
    /\ output_format = "csv"
    /\ err = SimpleError("NotImplementedError")

\* The entries of the public call's page, as its parser collects them.
Entries0 ==
    CASE IsXml -> IF page0.wellformed THEN page0.Placemark ELSE <<>>
      [] IsJson -> Get(page0.json, "Placemark", <<>>)
      [] output_format = "js" -> IF page0.match THEN page0.markers ELSE <<>>

Parser0 == IF IsXml THEN "xml" ELSE output_format

\* The placemark has a Point with a coordinates text.
XmlCarries(place) == place.Point # <<>> /\ place.Point[1].coordinates # <<>>

\* The entry parses on its own: it carries two coordinates or more.
EntryOk(e) ==
    CASE IsXml -> XmlCarries(e) /\ xml_parse_place(e).kind = "return"
      [] IsJson -> json_parse_place(e).kind = "return"
      [] OTHER -> TRUE

\* C7: with exactly_one false, every parser gives a sequence as long as the
\* page's list of entries, its i-th item parsed from the i-th entry.
C7_Sequence ==
    (/\ pc = "done" /\ ~call.exactly_one /\ Received
     /\ output_format \in {"xml", "kml", "json", "js"}
     /\ IsJson => Json200
     /\ \A i \in 1..Len(Entries0) : EntryOk(Entries0[i]))
    => /\ err = NoError
       /\ Len(yielded) = Len(Entries0)
       /\ \A i \in 1..Len(yielded) :
              yielded[i] = ParseEntry(Parser0, Entries0[i]).value

\* C8: in a forward call with exactly_one, the JavaScript parser raises the
\* cardinality error unless exactly one marker is found, and returns that
\* marker's (label, (latitude, longitude)) when one is.
C8_JsExactlyOne ==
    (pc = "done" /\ output_format = "js" /\ Forward /\ call.exactly_one /\ Received) =>
        /\ (Len(Entries0) # 1) =>
               err = ValueError("marker", Len(Entries0)) /\ result = NoResult
        /\ (Len(Entries0) = 1) =>
               err = NoError /\ result = Value(parse_marker(Entries0[1]).value)

\* The label of a Placemark element: its address, else its name, else None.
XmlLabel(place) ==
    IF place.address # <<>> THEN place.address
    ELSE IF place.name # <<>> THEN place.name
    ELSE None

\* The wire components of the placemark's first coordinates text, as numbers.
XmlWire(place) ==
    LET w == Split(place.Point[1].coordinates) IN [i \in 1..Len(w) |-> Float(w[i])]

\* (latitude, longitude) of a wire sequence longitude, latitude[, altitude]
Flipped(wire) == <<wire[2], wire[1]>>

\* C9: a result built from a placemark that carries coordinates has the
\* placemark's label and (latitude, longitude) = (second, first) component of
\* the first Point's coordinates, a third component being ignored; the JSON
\* parser does the same with the first two items of Point.coordinates.
C9_Flipped ==
    /\ (pc = "done" /\ result.kind = "value" /\ IsXml /\ XmlCarries(page0.Placemark[1])) =>
           /\ result.value.label = XmlLabel(page0.Placemark[1])
           /\ result.value.coord = Flipped(XmlWire(page0.Placemark[1]))
    /\ IsXml =>
           \A i \in 1..Len(yielded) :
               XmlCarries(gen.entries[i]) =>
                   /\ yielded[i].label = XmlLabel(gen.entries[i])
                   /\ yielded[i].coord = Flipped(XmlWire(gen.entries[i]))
    /\ (pc = "done" /\ result.kind = "value" /\ IsJson) =>
           /\ result.value.label = Get(page0.json.Placemark[1], "address", None)
           /\ result.value.coord = Flipped(page0.json.Placemark[1].Point.coordinates)
    /\ IsJson =>
           \A i \in 1..Len(yielded) :
               /\ yielded[i].label = Get(gen.entries[i], "address", None)
               /\ yielded[i].coord = Flipped(gen.entries[i].Point.coordinates)

C9_Witness ==
    /\ pc = "done" /\ IsXml /\ result.kind = "value"
    /\ XmlCarries(page0.Placemark[1])
    /\ page0.Placemark[1].Point[1].coordinates = <<"-", "3", ",", "4", ",", "5">>
    /\ result.value = [label |-> <<"B">>, coord |-> <<4, 0 - 3>>]

\* The placemark whose parse_place runs in a step: the generator's next
\* entry, or the one placemark of the page the step fetches.
Parsed == IF pc = "iter" THEN gen.entries[gen.idx] ELSE last_page'.Placemark[1]

\* The placemark the public call (or its generator) is resolving.
Outer == IF call.exactly_one THEN page0.Placemark[1] ELSE gen.entries[gen.idx]

\* The value a step hands to the caller.
Handed == IF call.exactly_one THEN result'.value ELSE yielded'[Len(yielded')]

\* C10: a nested geocode call is made only for a placemark without
\* coordinate text, as a forward call whose query is that placemark's label;
\* the result built for the placemark keeps its own label and takes the
\* coordinate of the nested call's result.
C10_Step ==
    /\ (pc \in {"fetch", "iter"} /\ pc' = "fetch") =>
           /\ inner'
           /\ ~XmlCarries(Parsed)
           /\ params' = GeocodeParams(XmlLabel(Parsed), FALSE)
           /\ location' = IF inner THEN location ELSE XmlLabel(Parsed)
    /\ (pc = "iter" /\ IsXml /\ gen.idx <= Len(gen.entries)
           /\ ~XmlCarries(gen.entries[gen.idx])) => pc' = "fetch"
    /\ (inner /\ ~inner' /\ err' = NoError) =>
           /\ location = XmlLabel(Outer)
           /\ Handed.label = XmlLabel(Outer)
           /\ Handed.coord = Flipped(XmlWire(last_page'.Placemark[1]))

\* C10, over every step of every run: C10_Step holds of each step.
C10_Fallback == [][C10_Step]_vars

C10_Witness ==
    /\ pc = "done" /\ call.exactly_one /\ nested = 1
    /\ IsXml /\ Received /\ last_page # URLError
    /\ XmlFound = 1 /\ Len(last_page.Placemark) = 1
    /\ page0.Placemark[1].address = <<"C">>
    /\ last_page.Placemark[1].address = <<"A">>
    /\ params.q = Format(<<"C">>)
    /\ result = Value([label |-> <<"C">>, coord |-> <<2, 1>>])

====
